---- MODULE Spec2Model ----
(***************************************************************************)
(* Model of the in-process publish/subscribe service of simple-pubsub      *)
(* (src/src/app.ts) and of its Queue (utils).                              *)
(*                                                                         *)
(* The program is single threaded.  A call of publish runs synchronously   *)
(* up to the first `await` of _processEvents: it enqueues the event,       *)
(* dequeues the head of the queue and runs _handle (and with it every      *)
(* handler, and every publish a handler makes) to completion.  The rest    *)
(* of the loop of _processEvents is a continuation that the JavaScript     *)
(* job queue resumes once the call stack is empty.  The model keeps the    *)
(* call stack (one frame per running _handle and per running custom        *)
(* handler) and the number of suspended loops.                             *)
(***************************************************************************)
EXTENDS Integers, Sequences, FiniteSets, TLC

\* ------------------------------------------------------------- bounds
\* calls of publish, subscribe and unsubscribe made by the callers of the
\* service (the program outside, and custom handlers)
MaxCalls == 4
\* readings of the millisecond clock run over 0..MaxTime
MaxTime == 1

\* ------------------------------------------------- program constants
LowStockThreshold == 2

Sale == "SALE"
Refill == "REFILL"
LowStockWarning == "LOW_STOCK_WARNING"
StockLevelOk == "STOCK_LEVEL_OK"
EventType == {Sale, Refill, LowStockWarning, StockLevelOk}

\* The machines shared by the subscribers, and the stock they start with.
Machines == {"001"}
InitStockLevels == {3}

\* Subscriber objects.  Two of them are instances of one class; custom1 and
\* thrower1 are ISubscriber implementations of the caller.
Subscribers ==
  {"sale1", "sale2", "refill1", "warn1", "ok1", "custom1", "thrower1"}
NoSubscriber == "none"

\* constructor.name of each subscriber object
ClassName ==
  [o \in Subscribers |->
     CASE o \in {"sale1", "sale2"} -> "MachineSaleSubscriber"
       [] o = "refill1" -> "MachineRefillSubscriber"
       [] o = "warn1" -> "MachineLowStockWarningSubscriber"
       [] o = "ok1" -> "MachineStockLevelOkSubscriber"
       [] o = "thrower1" -> "ThrowingSubscriber"
       [] OTHER -> "CustomSubscriber"]

\* MachineSubscriber.toString(): the name of the class, not of the object
toString(o) == ClassName[o]

\* `${eventType.toString()}-${subscriber.toString()}`
getSubscriptionKey(eventType, subscriber) == <<eventType, toString(subscriber)>>

\* The (type, subscriber) pairs callers subscribe, and those they unsubscribe.
SubscriptionInputs ==
  {<<Sale, "sale1">>, <<Sale, "sale2">>, <<Sale, "custom1">>,
   <<LowStockWarning, "warn1">>}
UnsubscriptionInputs == {<<Sale, "sale2">>}

\* Events.  pub numbers the publish call that queued the event and parent is
\* the event that was being delivered when it was published (0: none); both
\* are set by the model when the event is published.
MachineSaleEvent(machineId, sold) ==
  [type |-> Sale, machineId |-> machineId, qty |-> sold,
   pub |-> 0, parent |-> 0]
MachineRefillEvent(machineId, refill) ==
  [type |-> Refill, machineId |-> machineId, qty |-> refill,
   pub |-> 0, parent |-> 0]
MachineLowStockWarningEvent(machineId) ==
  [type |-> LowStockWarning, machineId |-> machineId, qty |-> 0,
   pub |-> 0, parent |-> 0]
MachineStockLevelOkEvent(machineId) ==
  [type |-> StockLevelOk, machineId |-> machineId, qty |-> 0,
   pub |-> 0, parent |-> 0]

EventInputs == {MachineSaleEvent("001", 1)}

VARIABLES
  subscriptions,          \* Map<EventType, Set<ISubscriber>>: insertion ordered
  subscriptionTimestamps, \* Map<string, number>
  eventQueue,             \* Queue<IEvent>, head first
  stockLevel,             \* Machine.stockLevel of each machine
  now,                    \* the value Date.now() returns
  stack,                  \* call stack: running _handle calls and custom handlers
  suspended,              \* loops of _processEvents waiting at their await
  raised,                 \* TRUE once a call of the service has thrown
  trace                   \* history of calls, deliveries and handler invocations

vars ==
  <<subscriptions, subscriptionTimestamps, eventQueue, stockLevel, now, stack,
    suspended, raised, trace>>

\* --------------------------------------------------------------- Queue
\* (mutant: the item is linked in twice)
enqueueTwice(q, item) == Append(Append(q, item), item)
enqueue(q, item) == Append(q, item)
\* dequeue(): the item returned (the queue is not empty) and the queue left
dequeueItem(q) == Head(q)
\* (mutant: dequeue returns the head and leaves it in the queue)
dequeueRestKeepsHead(q) == q
dequeueRest(q) == Tail(q)

\* ------------------------------------------------ Set<ISubscriber>
IndexOf(s, o) ==
  IF \E i \in 1..Len(s) : s[i] = o
    THEN CHOOSE i \in 1..Len(s) : s[i] = o
    ELSE 0
\* (mutant: a new member is put in front of the others)
SetAddFront(s, o) == IF IndexOf(s, o) = 0 THEN <<o>> \o s ELSE s
\* (mutant: an array push without the membership test)
SetAddAlways(s, o) == Append(s, o)
\* Set.add: appended unless present
SetAdd(s, o) == IF IndexOf(s, o) = 0 THEN Append(s, o) ELSE s
\* Set.delete
SetDelete(s, o) == SelectSeq(s, LAMBDA x : x # o)

\* ---------------------------------------------------------------- trace
\* `time` is the value of Date.now() the step read (0 when it read none),
\* `depth` the number of frames below the caller and `parent`, of a publish,
\* the event that was being delivered when publish was called (0: none).
Entry(op, type, obs, pub, src, time, depth) ==
  [op |-> op, type |-> type, obs |-> obs, pub |-> pub, src |-> src,
   time |-> time, depth |-> depth, parent |-> 0]

Indices(op) == {i \in DOMAIN trace : trace[i].op = op}
PublishCount == Cardinality(Indices("publish"))
CallCount ==
  Cardinality({i \in DOMAIN trace :
                 /\ trace[i].op \in {"publish", "subscribe", "unsubscribe"}
                 /\ trace[i].src # "machine"})

\* ---------------------------------------------------------------- stack
Top == stack[Len(stack)]
HandleFrame(event, handleTime) ==
  [kind |-> "handle", event |-> event, handleTime |-> handleTime, idx |-> 0,
   obs |-> NoSubscriber]
HandlerFrame(event, handler) ==
  [kind |-> "handler", event |-> event, handleTime |-> 0, idx |-> 0,
   obs |-> handler]

\* A caller of the service is running: the program outside any delivery, or
\* the body of a custom handler.
CallerReady == IF stack = <<>> THEN TRUE ELSE Top.kind = "handler"
CallerSrc == IF stack = <<>> THEN "external" ELSE "handler"
\* The event whose delivery the running code belongs to (0: none)
CurrentPub == IF stack = <<>> THEN 0 ELSE Top.event.pub

Init ==
  /\ subscriptions = <<>>
  /\ subscriptionTimestamps = <<>>
  /\ eventQueue = <<>>
  /\ stockLevel \in [Machines -> InitStockLevels]
  /\ now = 0
  /\ stack = <<>>
  /\ suspended = 0
  /\ raised = FALSE
  /\ trace = <<>>

\* Date.now(): a reading t of the millisecond clock, never below the last one.
DateNow(t) == t \in now..MaxTime /\ now' = t

\* ------------------------------------------------------------- publish
\* publish(event) called with `base` as the caller's stack: enqueue, then
\* _processEvents up to its first await, that is dequeue and enter _handle.
\* (mutant: publish enqueues the event and does not drive the loop)
publishEnqueueOnly(base, tr, event, src) ==
  LET pub == PublishCount + 1
  IN /\ eventQueue' = enqueue(eventQueue, [event EXCEPT !.pub = pub])
     /\ stack' = base
     /\ trace' = tr \o
          << [Entry("publish", event.type, NoSubscriber, pub, src, 0, Len(base))
                EXCEPT !.parent = event.parent] >>
     /\ UNCHANGED now

\* _handle reads handleTime as it is entered.
publish(base, tr, event, src) ==
  LET pub == PublishCount + 1
      q == enqueue(eventQueue, [event EXCEPT !.pub = pub])
      head == dequeueItem(q)
  IN \E handleTime \in now..MaxTime :
       /\ DateNow(handleTime)
       /\ eventQueue' = dequeueRest(q)
       /\ stack' = Append(base, HandleFrame(head, handleTime))
       /\ trace' = tr \o
            << [Entry("publish", event.type, NoSubscriber, pub, src, 0, Len(base))
                  EXCEPT !.parent = event.parent],
               Entry("begin", head.type, NoSubscriber, head.pub, src,
                     handleTime, Len(base)) >>

Publish(event) ==
  /\ CallerReady
  /\ CallCount < MaxCalls
  /\ publish(stack, trace, [event EXCEPT !.parent = CurrentPub], CallerSrc)
  /\ UNCHANGED <<subscriptions, subscriptionTimestamps, stockLevel,
                 suspended, raised>>

\* ----------------------------------------------- subscribe / unsubscribe
subscriptionsAfterSubscribe(eventType, handler) ==
  IF eventType \notin DOMAIN subscriptions
    THEN subscriptions @@ (eventType :> <<handler>>)
    ELSE [subscriptions EXCEPT ![eventType] = SetAdd(@, handler)]

\* Date.now() is read only when the key has no timestamp yet.
readsClockOnSubscribe(eventType, handler) ==
  getSubscriptionKey(eventType, handler) \notin DOMAIN subscriptionTimestamps

timestampsAfterSubscribe(eventType, handler, time) ==
  LET key == getSubscriptionKey(eventType, handler)
  IN IF key \notin DOMAIN subscriptionTimestamps
       THEN subscriptionTimestamps @@ (key :> time)
       ELSE subscriptionTimestamps

Subscribe(eventType, handler) ==
  /\ CallerReady
  /\ CallCount < MaxCalls
  /\ \E time \in now..MaxTime :
       /\ IF readsClockOnSubscribe(eventType, handler)
            THEN DateNow(time)
            ELSE time = now /\ UNCHANGED now
       /\ subscriptionTimestamps' =
            timestampsAfterSubscribe(eventType, handler, time)
       /\ trace' = Append(trace,
            Entry("subscribe", eventType, handler, CurrentPub, CallerSrc,
                  IF readsClockOnSubscribe(eventType, handler) THEN time ELSE 0,
                  Len(stack)))
  /\ subscriptions' = subscriptionsAfterSubscribe(eventType, handler)
  /\ UNCHANGED <<eventQueue, stockLevel, stack, suspended, raised>>

\* subscribers.delete(handler) is a member call: it throws a TypeError when
\* subscribers is undefined, which the code rules out before the call.
\* (mutant: subscribers.delete(handler) without the test for undefined)
unsubscribeThrowsUnguarded(eventType, handler) ==
  LET defined == eventType \in DOMAIN subscriptions
      callsDelete == TRUE
  IN callsDelete /\ ~defined

unsubscribeThrows(eventType, handler) ==
  LET defined == eventType \in DOMAIN subscriptions
      callsDelete == defined   \* if (subscribers !== undefined) { ... }
  IN callsDelete /\ ~defined

\* (mutant: unsubscribe forgets the Set and deletes the timestamp only)
subscriptionsKeptOnUnsubscribe(eventType, handler) == subscriptions

subscriptionsAfterUnsubscribe(eventType, handler) ==
  IF eventType \in DOMAIN subscriptions
    THEN [subscriptions EXCEPT ![eventType] = SetDelete(@, handler)]
    ELSE subscriptions

\* (mutant: unsubscribe deletes from the Set and keeps the timestamp)
timestampsKeptOnUnsubscribe(eventType, handler) == subscriptionTimestamps

timestampsAfterUnsubscribe(eventType, handler) ==
  LET key == getSubscriptionKey(eventType, handler)
  IN IF eventType \in DOMAIN subscriptions
       THEN [k \in DOMAIN subscriptionTimestamps \ {key} |->
               subscriptionTimestamps[k]]
       ELSE subscriptionTimestamps

\* Set.forEach keeps its place when an entry is deleted: a running _handle
\* over this set that is already past the deleted entry has one entry fewer
\* behind it.
stackAfterDelete(eventType, handler) ==
  LET pos == IF eventType \in DOMAIN subscriptions
               THEN IndexOf(subscriptions[eventType], handler)
               ELSE 0
  IN [i \in DOMAIN stack |->
        IF /\ stack[i].kind = "handle"
           /\ stack[i].event.type = eventType
           /\ pos # 0
           /\ pos <= stack[i].idx
          THEN [stack[i] EXCEPT !.idx = @ - 1]
          ELSE stack[i]]

Unsubscribe(eventType, handler) ==
  /\ CallerReady
  /\ CallCount < MaxCalls
  /\ raised' = (raised \/ unsubscribeThrows(eventType, handler))
  /\ subscriptions' = subscriptionsAfterUnsubscribe(eventType, handler)
  /\ subscriptionTimestamps' = timestampsAfterUnsubscribe(eventType, handler)
  /\ stack' = stackAfterDelete(eventType, handler)
  /\ trace' = Append(trace,
        Entry("unsubscribe", eventType, handler, CurrentPub, CallerSrc, 0,
              Len(stack)))
  /\ UNCHANGED <<eventQueue, stockLevel, now, suspended>>

\* ---------------------------------------------------------------- Machine
\* (mutant: a level check, the warning fires whenever the new level is low)
derivedEventLowLevel(oldStockLevel, newStockLevel) ==
  LET goesAboveThreshold ==
        oldStockLevel <= LowStockThreshold /\ newStockLevel > LowStockThreshold
      goesBelowThreshold == newStockLevel <= LowStockThreshold
  IN IF goesAboveThreshold THEN StockLevelOk
     ELSE IF goesBelowThreshold THEN LowStockWarning
     ELSE "NONE"

\* (mutant: a level check, the all-clear fires whenever the new level is ok)
derivedEventHighLevel(oldStockLevel, newStockLevel) ==
  LET goesAboveThreshold == newStockLevel > LowStockThreshold
      goesBelowThreshold ==
        oldStockLevel > LowStockThreshold /\ newStockLevel <= LowStockThreshold
  IN IF goesAboveThreshold THEN StockLevelOk
     ELSE IF goesBelowThreshold THEN LowStockWarning
     ELSE "NONE"

\* (mutant: the threshold itself counts as stock that is ok)
derivedEventExclusive(oldStockLevel, newStockLevel) ==
  LET goesAboveThreshold ==
        oldStockLevel < LowStockThreshold /\ newStockLevel >= LowStockThreshold
      goesBelowThreshold ==
        oldStockLevel >= LowStockThreshold /\ newStockLevel < LowStockThreshold
  IN IF goesAboveThreshold THEN StockLevelOk
     ELSE IF goesBelowThreshold THEN LowStockWarning
     ELSE "NONE"

\* (mutant: every decrease of the stock warns)
derivedEventOnDecrease(oldStockLevel, newStockLevel) ==
  LET goesAboveThreshold ==
        oldStockLevel <= LowStockThreshold /\ newStockLevel > LowStockThreshold
      goesBelowThreshold == newStockLevel < oldStockLevel
  IN IF goesAboveThreshold THEN StockLevelOk
     ELSE IF goesBelowThreshold THEN LowStockWarning
     ELSE "NONE"

\* _addStock: the event type the adjustment publishes ("NONE": no event)
derivedEvent(oldStockLevel, newStockLevel) ==
  LET goesAboveThreshold ==
        oldStockLevel <= LowStockThreshold /\ newStockLevel > LowStockThreshold
      goesBelowThreshold ==
        oldStockLevel > LowStockThreshold /\ newStockLevel <= LowStockThreshold
  IN IF goesAboveThreshold THEN StockLevelOk
     ELSE IF goesBelowThreshold THEN LowStockWarning
     ELSE "NONE"

\* (mutant: the new level is not stored when an event is published)
addStockStoresLate(base, tr, m, amount) ==
  LET oldStockLevel == stockLevel[m]
      newStockLevel == oldStockLevel + amount
      derived == derivedEvent(oldStockLevel, newStockLevel)
      event == [(IF derived = StockLevelOk
                   THEN MachineStockLevelOkEvent(m)
                   ELSE MachineLowStockWarningEvent(m))
                  EXCEPT !.parent = CurrentPub]
  IN IF amount = 0
       THEN /\ stack' = base
            /\ trace' = tr
            /\ UNCHANGED <<stockLevel, eventQueue, now>>
       ELSE IF derived = "NONE"
              THEN /\ stockLevel' = [stockLevel EXCEPT ![m] = newStockLevel]
                   /\ stack' = base
                   /\ trace' = tr
                   /\ UNCHANGED <<eventQueue, now>>
              ELSE /\ stockLevel' = stockLevel
                   /\ publish(base, tr, event, "machine")

\* Machine._addStock(amount) of machine m, called by a handler that _handle
\* invoked with `base` as the stack and `tr` as the trace so far.
addStock(base, tr, m, amount) ==
  LET oldStockLevel == stockLevel[m]
      newStockLevel == oldStockLevel + amount
      derived == derivedEvent(oldStockLevel, newStockLevel)
      event == [(IF derived = StockLevelOk
                   THEN MachineStockLevelOkEvent(m)
                   ELSE MachineLowStockWarningEvent(m))
                  EXCEPT !.parent = CurrentPub]
  IN IF amount = 0
       THEN /\ stack' = base
            /\ trace' = tr
            /\ UNCHANGED <<stockLevel, eventQueue, now>>
       ELSE /\ stockLevel' = [stockLevel EXCEPT ![m] = newStockLevel]
            /\ IF derived = "NONE"
                 THEN /\ stack' = base
                      /\ trace' = tr
                      /\ UNCHANGED <<eventQueue, now>>
                 ELSE \* this.pubSubService.publish(event)
                      publish(base, tr, event, "machine")

\* (mutant: a refill adds one unit whatever the amount)
refillStockOne(base, tr, m, amount) == addStock(base, tr, m, 1)
refillStock(base, tr, m, amount) == addStock(base, tr, m, amount)
\* (mutant: one unit more than the amount is consumed)
consumeStockOffByOne(base, tr, m, amount) ==
  addStock(base, tr, m, 0 - (amount + 1))
\* (mutant: no more is consumed than the machine holds)
consumeStockClamped(base, tr, m, amount) ==
  addStock(base, tr, m,
           0 - (IF amount > stockLevel[m] THEN stockLevel[m] ELSE amount))
consumeStock(base, tr, m, amount) == addStock(base, tr, m, 0 - amount)

\* ------------------------------------------------------------ subscribers
NoMachine == "none"
\* (mutant: an id that is not found selects a machine all the same)
getEventMachineAny(event) ==
  IF event.machineId \in DOMAIN stockLevel
    THEN event.machineId
    ELSE CHOOSE m \in DOMAIN stockLevel : TRUE
\* MachineSubscriber.getEventMachine: the machine of the shared collection
\* whose id the event names (NoMachine: undefined)
getEventMachine(event) ==
  IF event.machineId \in DOMAIN stockLevel THEN event.machineId ELSE NoMachine

\* (mutant: the handlers do not look at the class of the event)
instanceOfAny(event, eventType) == TRUE
\* event instanceof the event class of eventType
instanceOf(event, eventType) == event.type = eventType

\* ---------------------------------------------------------------- _handle
\* the Set that forEach runs over (none when the Map has no entry for the type)
subscribersOf(eventType) ==
  IF eventType \in DOMAIN subscriptions THEN subscriptions[eventType] ELSE <<>>

\* (mutant: subscriptionTime < handleTime)
isEligibleStrict(eventType, handler, handleTime) ==
  LET key == getSubscriptionKey(eventType, handler)
  IN /\ key \in DOMAIN subscriptionTimestamps
     /\ subscriptionTimestamps[key] < handleTime

\* subscriptionTime !== undefined && subscriptionTime <= handleTime
isEligible(eventType, handler, handleTime) ==
  LET key == getSubscriptionKey(eventType, handler)
  IN /\ key \in DOMAIN subscriptionTimestamps
     /\ subscriptionTimestamps[key] <= handleTime

\* One round of the forEach of _handle: the next subscriber of the set, the
\* check of its subscription time and, when it passes, handler.handle(event).
HandleNext ==
  /\ stack # <<>>
  /\ Top.kind = "handle"
  /\ Top.idx < Len(subscribersOf(Top.event.type))
  /\ LET event == Top.event
         handler == subscribersOf(event.type)[Top.idx + 1]
         base == [stack EXCEPT ![Len(stack)].idx = @ + 1]
         tr == Append(trace,
                 Entry("handle", event.type, handler, event.pub, "service", 0,
                       Len(stack)))
     IN IF ~isEligible(event.type, handler, Top.handleTime)
          THEN /\ stack' = base
               /\ UNCHANGED <<eventQueue, stockLevel, now, trace>>
          ELSE CASE ClassName[handler] = "MachineSaleSubscriber"
                      /\ instanceOf(event, Sale)
                      /\ getEventMachine(event) # NoMachine ->
                      consumeStock(base, tr, getEventMachine(event), event.qty)
                 [] ClassName[handler] = "MachineRefillSubscriber"
                      /\ instanceOf(event, Refill)
                      /\ getEventMachine(event) # NoMachine ->
                      refillStock(base, tr, getEventMachine(event), event.qty)
                 [] ClassName[handler] = "CustomSubscriber" ->
                      /\ stack' = Append(base, HandlerFrame(event, handler))
                      /\ trace' = tr
                      /\ UNCHANGED <<eventQueue, stockLevel, now>>
                 [] ClassName[handler] = "ThrowingSubscriber" ->
                      \* handle throws: the error leaves forEach and rejects
                      \* the promise of the async _handle.  _processEvents was
                      \* evaluating `await this._handle(event)`: it suspends,
                      \* so publish returns to its caller as usual, and when
                      \* it is resumed the await throws and the loop ends
                      \* without another dequeue, its rejection unhandled.
                      /\ stack' = SubSeq(stack, 1, Len(stack) - 1)
                      /\ trace' = Append(tr,
                            Entry("throw", event.type, handler, event.pub,
                                  "handler", 0, Len(stack)))
                      /\ UNCHANGED <<eventQueue, stockLevel, now>>
                 [] OTHER ->
                      /\ stack' = base
                      /\ trace' = tr
                      /\ UNCHANGED <<eventQueue, stockLevel, now>>
  /\ UNCHANGED <<subscriptions, subscriptionTimestamps, suspended, raised>>

\* The forEach is over: _handle returns, _processEvents suspends at its await
\* and publish returns to its caller.
HandleReturn ==
  /\ stack # <<>>
  /\ Top.kind = "handle"
  /\ Top.idx >= Len(subscribersOf(Top.event.type))
  /\ stack' = SubSeq(stack, 1, Len(stack) - 1)
  /\ suspended' = suspended + 1
  /\ trace' = Append(trace,
        Entry("end", Top.event.type, NoSubscriber, Top.event.pub, "service", 0,
              Len(stack) - 1))
  /\ UNCHANGED <<subscriptions, subscriptionTimestamps, eventQueue, stockLevel,
                 now, raised>>

\* A custom handler returns to the forEach that invoked it.
HandlerReturn ==
  /\ stack # <<>>
  /\ Top.kind = "handler"
  /\ stack' = SubSeq(stack, 1, Len(stack) - 1)
  /\ UNCHANGED <<subscriptions, subscriptionTimestamps, eventQueue, stockLevel,
                 now, suspended, raised, trace>>

\* ------------------------------------------------------- _processEvents
\* The job queue resumes a suspended loop: event = dequeue(), and the loop
\* ends when the queue is empty or enters _handle for the event it took.
ResumeProcessEvents ==
  /\ stack = <<>>
  /\ suspended > 0
  /\ suspended' = suspended - 1
  /\ IF eventQueue = <<>>
       THEN UNCHANGED <<eventQueue, stack, trace, now>>
       ELSE \E handleTime \in now..MaxTime :
              /\ DateNow(handleTime)
              /\ eventQueue' = dequeueRest(eventQueue)
              /\ stack' = <<HandleFrame(dequeueItem(eventQueue), handleTime)>>
              /\ trace' = Append(trace,
                    Entry("begin", dequeueItem(eventQueue).type, NoSubscriber,
                          dequeueItem(eventQueue).pub, "resume", handleTime, 0))
  /\ UNCHANGED <<subscriptions, subscriptionTimestamps, stockLevel, raised>>

Next ==
  \/ \E event \in EventInputs : Publish(event)
  \/ \E s \in SubscriptionInputs : Subscribe(s[1], s[2])
  \/ \E s \in UnsubscriptionInputs : Unsubscribe(s[1], s[2])
  \/ HandleNext
  \/ HandleReturn
  \/ HandlerReturn
  \/ ResumeProcessEvents

Spec == Init /\ [][Next]_vars

\* ====================================================================
\* Properties.  They are stated over the trace: which calls were made, which
\* events began and ended their delivery and which handlers were invoked.
\* ====================================================================
IsCall(i, op, eventType, handler) ==
  /\ trace[i].op = op
  /\ trace[i].type = eventType
  /\ trace[i].obs = handler

Handles == Indices("handle")
PubIds == {trace[i].pub : i \in Indices("publish")}
\* the entry of the publish call that queued event number pub
PublishAt(pub) == CHOOSE i \in Indices("publish") : trace[i].pub = pub
TypeOf(pub) == trace[PublishAt(pub)].type
ParentOf(pub) == trace[PublishAt(pub)].parent
Ended(pub) == \E i \in Indices("end") : trace[i].pub = pub
\* pub ended its delivery before entry k of the trace
EndedBefore(pub, k) == \E i \in Indices("end") : trace[i].pub = pub /\ i < k
Invocations(handler, pub) ==
  {i \in Handles : trace[i].obs = handler /\ trace[i].pub = pub}
HandleCount(handler, pub) == Cardinality(Invocations(handler, pub))

\* By the calls made before entry k, handler is enrolled for eventType: it was
\* subscribed and not unsubscribed since.
EnrolledBefore(k, eventType, handler) ==
  \E i \in Indices("subscribe") :
    /\ i < k
    /\ IsCall(i, "subscribe", eventType, handler)
    /\ \A j \in Indices("unsubscribe") :
         (i < j /\ j < k) => ~IsCall(j, "unsubscribe", eventType, handler)

NoUnsubscribeCalls == Indices("unsubscribe") = {}
NoSubscribeFromHandlers ==
  \A i \in Indices("subscribe") : trace[i].src # "handler"

\* C1: after subscribe calls only (none of them made by a handler during a
\* delivery), a published event whose delivery is over has invoked handle
\* exactly once on every subscriber subscribed to its type before the publish
\* call, two objects of one class included, and on no other subscriber.
C1_HandleOnceOnEachSubscriber ==
  (NoUnsubscribeCalls /\ NoSubscribeFromHandlers) =>
    LET ended == {trace[i].pub : i \in Indices("end")}
        handles == Handles
        subscribes == Indices("subscribe")
    IN \A p \in Indices("publish") :
         trace[p].pub \in ended =>
           \A o \in Subscribers :
             Cardinality({h \in handles : /\ trace[h].obs = o
                                          /\ trace[h].pub = trace[p].pub}) =
               (IF \E i \in subscribes :
                     i < p /\ IsCall(i, "subscribe", trace[p].type, o)
                  THEN 1 ELSE 0)

\* Two MachineSaleSubscriber objects subscribed to Sale and one subscriber of
\* LowStockWarning only; a Sale event was delivered to the two and not to it.
C1_Witness ==
  /\ NoUnsubscribeCalls /\ NoSubscribeFromHandlers
  /\ \E pub \in PubIds :
       /\ TypeOf(pub) = Sale /\ Ended(pub)
       /\ EnrolledBefore(PublishAt(pub), Sale, "sale1")
       /\ EnrolledBefore(PublishAt(pub), Sale, "sale2")
       /\ EnrolledBefore(PublishAt(pub), LowStockWarning, "warn1")
       /\ HandleCount("sale1", pub) = 1
       /\ HandleCount("sale2", pub) = 1
       /\ HandleCount("warn1", pub) = 0

\* handler was subscribed to eventType before entry k and the trace holds no
\* unsubscribe call of it for eventType
EnrolledThroughoutSince(k, eventType, handler) ==
  /\ \E s \in Indices("subscribe") :
       s < k /\ IsCall(s, "subscribe", eventType, handler)
  /\ \A u \in Indices("unsubscribe") : ~IsCall(u, "unsubscribe", eventType, handler)

\* C2: a subscriber enrolled throughout receives the events of its type in the
\* order of the publish calls: of two invocations of its handle for events
\* of that type published after it subscribed, the earlier invocation is for
\* the event published first.
C2_HandledInPublishOrder ==
  \A i \in Handles : \A j \in Handles :
    ( /\ i < j
      /\ trace[i].obs = trace[j].obs
      /\ trace[i].type = trace[j].type
      /\ EnrolledThroughoutSince(PublishAt(trace[i].pub), trace[i].type,
                                 trace[i].obs)
      /\ EnrolledThroughoutSince(PublishAt(trace[j].pub), trace[j].type,
                                 trace[j].obs) )
    => trace[i].pub <= trace[j].pub

\* C3: whenever no call of the service is running (the outermost publish has
\* returned), every event published so far, by the caller or by a handler or
\* a machine during a delivery, has ended its delivery and the queue is empty.
C3_SettledWhenPublishReturns ==
  stack = <<>> =>
    /\ eventQueue = <<>>
    /\ \A pub \in PubIds : Ended(pub)

\* An outermost publish has returned after a handler's machine published a
\* derived event during the delivery, and a subscriber handled that event.
C3_Witness ==
  /\ stack = <<>>
  /\ \E pub \in PubIds :
       /\ ParentOf(pub) # 0
       /\ Ended(pub) /\ Ended(ParentOf(pub))
       /\ \E o \in Subscribers : HandleCount(o, pub) = 1

\* C4: an event published by a handler while event E is being delivered is
\* handled only after E is: once a handle was invoked for the new event, no
\* handle is invoked for E any more.
C4_NewEventAfterExistingOnes ==
  \A i \in Handles : \A j \in Handles :
    i < j => ParentOf(trace[i].pub) # trace[j].pub

HasNoDuplicates(s) ==
  \A i \in 1..Len(s) : \A j \in 1..Len(s) : s[i] = s[j] => i = j

\* C5: subscribing a subscriber again is the same as subscribing it once: the
\* Set of a type never holds a subscriber twice, and when a subscriber was
\* subscribed to a type twice or more, with no unsubscribe call for that type
\* since the first of these calls, every event of the type published after
\* them invokes its handle exactly once.
C5_SubscribeIdempotent ==
  /\ \A t \in DOMAIN subscriptions : HasNoDuplicates(subscriptions[t])
  /\ LET ended == {trace[i].pub : i \in Indices("end")}
         handles == Handles
         subscribes == Indices("subscribe")
         unsubscribes == Indices("unsubscribe")
     IN \A i \in subscribes : \A j \in subscribes :
          ( /\ i < j
            /\ trace[i].type = trace[j].type
            /\ trace[i].obs = trace[j].obs
            /\ \A u \in unsubscribes : u > i => trace[u].type # trace[i].type )
          => \A p \in Indices("publish") :
               (j < p /\ trace[p].type = trace[i].type /\ trace[p].pub \in ended)
                 => Cardinality({h \in handles :
                                   /\ trace[h].obs = trace[i].obs
                                   /\ trace[h].pub = trace[p].pub}) = 1

\* sale1 was subscribed to Sale twice in a row and the Sale event published
\* after that invoked it once.
C5_Witness ==
  \E pub \in PubIds :
    /\ Ended(pub) /\ TypeOf(pub) = Sale
    /\ PublishAt(pub) = 3
    /\ IsCall(1, "subscribe", Sale, "sale1")
    /\ IsCall(2, "subscribe", Sale, "sale1")
    /\ HandleCount("sale1", pub) = 1

\* C6: a subscriber that was unsubscribed from a type before an event of that
\* type was published has its handle invoked for that event only if it was
\* subscribed to the type again in between.
C6_NoHandleAfterUnsubscribe ==
  \A h \in Handles : \A u \in Indices("unsubscribe") :
    ( /\ trace[u].obs = trace[h].obs
      /\ trace[u].type = trace[h].type
      /\ u < PublishAt(trace[h].pub) )
    => \E s \in Indices("subscribe") :
         /\ u < s /\ s < h
         /\ IsCall(s, "subscribe", trace[h].type, trace[h].obs)

\* sale2 was subscribed, then unsubscribed and not subscribed again; the Sale
\* event published afterwards was delivered to another subscriber, not to it.
C6_Witness ==
  \E u \in Indices("unsubscribe") : \E pub \in PubIds :
    /\ IsCall(u, "unsubscribe", Sale, "sale2")
    /\ EnrolledBefore(u, Sale, "sale2")
    /\ ~EnrolledBefore(Len(trace) + 1, Sale, "sale2")
    /\ TypeOf(pub) = Sale /\ PublishAt(pub) > u /\ Ended(pub)
    /\ HandleCount("sale2", pub) = 0
    /\ HandleCount("custom1", pub) = 1

\* C7: no call of unsubscribe throws, whatever the registry holds.
C7_UnsubscribeNeverThrows == raised = FALSE

\* unsubscribe was called for a type nothing was ever subscribed to, for an
\* enrolled subscriber and for one already unsubscribed, and nothing was thrown.
C7_Witness ==
  /\ raised = FALSE
  /\ \E a \in Indices("unsubscribe") :
       \A i \in 1..(a - 1) : trace[i].type # trace[a].type
  /\ \E b \in Indices("unsubscribe") : \E c \in Indices("unsubscribe") :
       /\ b < c
       /\ trace[b].type = trace[c].type /\ trace[b].obs = trace[c].obs
       /\ EnrolledBefore(b, trace[b].type, trace[b].obs)
       /\ ~EnrolledBefore(c, trace[c].type, trace[c].obs)

\* C8: unsubscribing a subscriber that is not enrolled changes nothing: when
\* every unsubscribe call so far was of a subscriber not enrolled for the type,
\* an event whose delivery is over has invoked every subscriber that was
\* subscribed to its type before the publish call.
C8_AbsentUnsubscribeIsNoOp ==
  (\A u \in Indices("unsubscribe") :
     ~EnrolledBefore(u, trace[u].type, trace[u].obs))
  => \A pub \in PubIds : \A o \in Subscribers :
       (Ended(pub) /\ EnrolledBefore(PublishAt(pub), TypeOf(pub), o))
         => HandleCount(o, pub) = 1

\* C9: a subscriber that subscribes to a type after the delivery of an event
\* of that type is over is not invoked for that event afterwards.
C9_NoPastEventAfterSubscribe ==
  LET ends == Indices("end")
      handles == Handles
  IN \A s \in Indices("subscribe") : \A e \in ends :
       (e < s /\ trace[e].type = trace[s].type)
         => \A h \in handles :
              (trace[h].pub = trace[e].pub /\ trace[h].obs = trace[s].obs)
                => h < s

\* A Sale event was published and drained, then sale1 subscribed to Sale and
\* a second Sale event was delivered to it; it never handled the first.
C9_Witness ==
  \E s \in Indices("subscribe") : \E p1 \in PubIds : \E p2 \in PubIds :
    /\ IsCall(s, "subscribe", Sale, "sale1")
    /\ TypeOf(p1) = Sale /\ EndedBefore(p1, s)
    /\ PublishAt(p2) > s /\ Ended(p2)
    /\ HandleCount("sale1", p2) = 1
    /\ HandleCount("sale1", p1) = 0

\* C10: a subscriber that a handler subscribes to type T while an event E of
\* type T is being delivered, and that was not enrolled for T, is not invoked
\* for E.
C10_NoRetroactiveDelivery ==
  \A s \in Indices("subscribe") : \A h \in Handles :
    ( /\ trace[s].src = "handler"
      /\ trace[s].pub = trace[h].pub
      /\ trace[s].type = trace[h].type
      /\ trace[s].obs = trace[h].obs
      /\ ~EnrolledBefore(s, trace[s].type, trace[s].obs) )
    => h < s

\* ====================================================================
\* The Machine on its own: the program calls consumeStock and refillStock of
\* a machine directly, between deliveries.  Nothing is subscribed, so a
\* derived event passes through the queue and _handle finds no subscriber.
\* ====================================================================
\* calls of consumeStock and refillStock made by the program
MaxAdjustments == 3

\* stock levels the machines start with and amounts consumed or refilled
MachineStockLevels == {1, 2, 3, 5}
Amounts == {0, 1, 3, 5}

\* The record of a call of consumeStock or refillStock: the machine, the
\* amount and the stock level the call found.
StockCall(op, m, amount) ==
  [op |-> op, type |-> "NONE", obs |-> NoSubscriber, pub |-> 0,
   src |-> "external", time |-> 0, depth |-> Len(stack), parent |-> 0,
   machineId |-> m, amount |-> amount, old |-> stockLevel[m]]

StockCalls ==
  {i \in DOMAIN trace : trace[i].op \in {"consumeStock", "refillStock"}}

MachineInit ==
  /\ subscriptions = <<>>
  /\ subscriptionTimestamps = <<>>
  /\ eventQueue = <<>>
  /\ stockLevel \in [Machines -> MachineStockLevels]
  /\ now = 0
  /\ stack = <<>>
  /\ suspended = 0
  /\ raised = FALSE
  /\ trace = <<>>

ConsumeStock(m, amount) ==
  /\ stack = <<>>
  /\ Cardinality(StockCalls) < MaxAdjustments
  /\ consumeStock(stack, Append(trace, StockCall("consumeStock", m, amount)),
                  m, amount)
  /\ UNCHANGED <<subscriptions, subscriptionTimestamps, suspended, raised>>

RefillStock(m, amount) ==
  /\ stack = <<>>
  /\ Cardinality(StockCalls) < MaxAdjustments
  /\ refillStock(stack, Append(trace, StockCall("refillStock", m, amount)),
                 m, amount)
  /\ UNCHANGED <<subscriptions, subscriptionTimestamps, suspended, raised>>

MachineNext ==
  \/ \E m \in Machines : \E amount \in Amounts : ConsumeStock(m, amount)
  \/ \E m \in Machines : \E amount \in Amounts : RefillStock(m, amount)
  \/ HandleReturn
  \/ ResumeProcessEvents

MachineSpec == MachineInit /\ [][MachineNext]_vars

\* ---- properties of the Machine, over the calls recorded in the trace
MinOf(S) == CHOOSE x \in S : \A y \in S : x <= y
\* the calls of machine m that follow call i
LaterCalls(i) ==
  {j \in StockCalls : j > i /\ trace[j].machineId = trace[i].machineId}
LevelBefore(i) == trace[i].old
\* the stock level call i left: the level the next call of the machine found,
\* or the level the machine has now
LevelAfter(i) ==
  IF LaterCalls(i) = {}
    THEN stockLevel[trace[i].machineId]
    ELSE trace[MinOf(LaterCalls(i))].old
\* the publish calls of the given type the machine made during call i
PublishedBy(i, eventType) ==
  {p \in Indices("publish") :
     /\ p > i
     /\ trace[p].src = "machine"
     /\ trace[p].type = eventType
     /\ \A j \in StockCalls : ~(i < j /\ j < p)}
\* call i and every call before it is a call of op
OnlyCallsUpTo(i, op) == \A j \in StockCalls : j <= i => trace[j].op = op
StartLevel == trace[MinOf(StockCalls)].old

\* C11: for a machine that starts above the threshold and is only consumed
\* from, a consumeStock call that leaves the stock above the threshold
\* publishes no LowStockWarning, the call that takes it from above to at or
\* below the threshold publishes exactly one, a call made at or below the
\* threshold publishes none, and so at most one is published over all calls.
C11_LowStockWarningOnce ==
  \A i \in StockCalls :
    (OnlyCallsUpTo(i, "consumeStock") /\ StartLevel > LowStockThreshold) =>
      /\ Cardinality(PublishedBy(i, LowStockWarning)) =
           (IF LevelBefore(i) > LowStockThreshold
                 /\ LevelAfter(i) <= LowStockThreshold
              THEN 1 ELSE 0)
      /\ PublishedBy(i, StockLevelOk) = {}
      /\ Cardinality({p \in Indices("publish") :
                        p < i /\ trace[p].type = LowStockWarning}) =
           (IF LevelBefore(i) <= LowStockThreshold THEN 1 ELSE 0)

\* From stock 5: a consumeStock that stays above the threshold (none
\* published), one that crosses it (one LowStockWarning) and one below it
\* (none again).
C11_Witness ==
  /\ Cardinality(StockCalls) = 3
  /\ OnlyCallsUpTo(Len(trace), "consumeStock")
  /\ StartLevel = 5
  /\ \E a \in StockCalls : \E b \in StockCalls : \E c \in StockCalls :
       /\ a < b /\ b < c
       /\ LevelAfter(a) > LowStockThreshold
       /\ PublishedBy(a, LowStockWarning) = {}
       /\ LevelAfter(b) <= LowStockThreshold
       /\ Cardinality(PublishedBy(b, LowStockWarning)) = 1
       /\ LevelAfter(c) < LevelAfter(b)
       /\ PublishedBy(c, LowStockWarning) = {}

\* C12: for a machine that starts at or below the threshold and is only
\* refilled, a refillStock call that leaves the stock at or below the
\* threshold publishes no StockLevelOk, the call that takes it from at or
\* below to above the threshold publishes exactly one, a call made above the
\* threshold publishes none, and so at most one is published over all calls.
C12_StockLevelOkOnce ==
  \A i \in StockCalls :
    (OnlyCallsUpTo(i, "refillStock") /\ StartLevel <= LowStockThreshold) =>
      /\ Cardinality(PublishedBy(i, StockLevelOk)) =
           (IF LevelBefore(i) <= LowStockThreshold
                 /\ LevelAfter(i) > LowStockThreshold
              THEN 1 ELSE 0)
      /\ PublishedBy(i, LowStockWarning) = {}
      /\ Cardinality({p \in Indices("publish") :
                        p < i /\ trace[p].type = StockLevelOk}) =
           (IF LevelBefore(i) > LowStockThreshold THEN 1 ELSE 0)

\* From stock 1: a refillStock that stays at the threshold (none published),
\* one that crosses it (one StockLevelOk) and one above it (none again).
C12_Witness ==
  /\ Cardinality(StockCalls) = 3
  /\ OnlyCallsUpTo(Len(trace), "refillStock")
  /\ StartLevel = 1
  /\ \E a \in StockCalls : \E b \in StockCalls : \E c \in StockCalls :
       /\ a < b /\ b < c
       /\ LevelAfter(a) = LowStockThreshold
       /\ PublishedBy(a, StockLevelOk) = {}
       /\ LevelAfter(b) > LowStockThreshold
       /\ Cardinality(PublishedBy(b, StockLevelOk)) = 1
       /\ LevelAfter(c) > LevelAfter(b)
       /\ PublishedBy(c, StockLevelOk) = {}

\* the calls so far are exactly consumeStock(3), consumeStock(1) and
\* refillStock(5), in this order, of a machine that started with 5
SaleSaleRefillFromFive ==
  /\ Cardinality(StockCalls) = 3
  /\ StartLevel = 5
  /\ \E a \in StockCalls : \E b \in StockCalls : \E c \in StockCalls :
       /\ a < b /\ b < c
       /\ trace[a].op = "consumeStock" /\ trace[a].amount = 3
       /\ trace[b].op = "consumeStock" /\ trace[b].amount = 1
       /\ trace[c].op = "refillStock" /\ trace[c].amount = 5

\* C13: the threshold itself is low stock.  A call that takes the stock from
\* above the threshold to exactly the threshold publishes LowStockWarning and
\* a call that takes it from exactly the threshold to above it publishes
\* StockLevelOk; from stock 5, consumeStock(3), consumeStock(1) and
\* refillStock(5) publish LowStockWarning, nothing and StockLevelOk, and
\* leave the stock at 6.
C13_ThresholdInclusive ==
  /\ \A i \in StockCalls :
       /\ (LevelBefore(i) > LowStockThreshold /\ LevelAfter(i) = LowStockThreshold)
            => Cardinality(PublishedBy(i, LowStockWarning)) = 1
       /\ (LevelBefore(i) = LowStockThreshold /\ LevelAfter(i) > LowStockThreshold)
            => Cardinality(PublishedBy(i, StockLevelOk)) = 1
  /\ SaleSaleRefillFromFive =>
       /\ \A m \in Machines : stockLevel[m] = 6
       /\ \E a \in StockCalls : \E b \in StockCalls : \E c \in StockCalls :
            /\ a < b /\ b < c
            /\ Cardinality(PublishedBy(a, LowStockWarning)) = 1
            /\ PublishedBy(a, StockLevelOk) = {}
            /\ PublishedBy(b, LowStockWarning) = {}
            /\ PublishedBy(b, StockLevelOk) = {}
            /\ PublishedBy(c, LowStockWarning) = {}
            /\ Cardinality(PublishedBy(c, StockLevelOk)) = 1

\* The three calls were made and every delivery they started is over.
C13_Witness ==
  /\ SaleSaleRefillFromFive
  /\ stack = <<>> /\ suspended = 0
  /\ Cardinality(Indices("publish")) = 2
  /\ \E a \in StockCalls :
       LevelBefore(a) = 5 /\ LevelAfter(a) = LowStockThreshold
  /\ \E c \in StockCalls :
       LevelBefore(c) < LowStockThreshold /\ LevelAfter(c) = 6

SameSide(old, new) ==
  \/ old <= LowStockThreshold /\ new <= LowStockThreshold
  \/ old > LowStockThreshold /\ new > LowStockThreshold

\* C14: a call of consumeStock or refillStock publishes at most one event, so
\* never both a LowStockWarning and a StockLevelOk, and publishes none when
\* the stock level it found and the one it left are on the same side of the
\* threshold.
C14_AtMostOneDerivedEvent ==
  \A i \in StockCalls :
    LET published ==
          {p \in Indices("publish") :
             p > i /\ \A j \in StockCalls : ~(i < j /\ j < p)}
    IN /\ Cardinality(published) <= 1
       /\ \A p \in published : trace[p].type \in {LowStockWarning, StockLevelOk}
       /\ SameSide(LevelBefore(i), LevelAfter(i)) => published = {}

\* A call that changed the stock within one side of the threshold and
\* published nothing, a refillStock that crossed it upwards and a
\* consumeStock that crossed it downwards, each publishing its one event.
C14_Witness ==
  /\ \E a \in StockCalls :
       /\ trace[a].amount > 0
       /\ SameSide(LevelBefore(a), LevelAfter(a))
       /\ PublishedBy(a, LowStockWarning) \cup PublishedBy(a, StockLevelOk) = {}
  /\ \E b \in StockCalls :
       /\ trace[b].op = "refillStock"
       /\ ~SameSide(LevelBefore(b), LevelAfter(b))
       /\ Cardinality(PublishedBy(b, StockLevelOk)) = 1
       /\ PublishedBy(b, LowStockWarning) = {}
  /\ \E c \in StockCalls :
       /\ trace[c].op = "consumeStock"
       /\ ~SameSide(LevelBefore(c), LevelAfter(c))
       /\ Cardinality(PublishedBy(c, LowStockWarning)) = 1
       /\ PublishedBy(c, StockLevelOk) = {}

\* ====================================================================
\* Properties of the service, continued (specification Spec).
\* ====================================================================
\* C15: the queue is drained by one loop at a time: an event is dequeued and
\* its delivery begun only while no _handle of another invocation of
\* _processEvents is running, so an event a handler publishes waits in the
\* queue for the loop that is already running.
C15_NoConcurrentDraining ==
  \A i \in Indices("begin") : trace[i].depth = 0

\* C16: events are delivered in the order E1, E1a, E2, E3 in which they were
\* published, E1a being published by a handler of E1: of two handle
\* invocations, the earlier one is for the event published first.
C16_DeliveredInPublishOrder ==
  \A i \in Handles : \A j \in Handles :
    i < j => trace[i].pub <= trace[j].pub

MaxOf(S) == CHOOSE x \in S : \A y \in S : x >= y
\* The subscribe call by which handler is in the Set of eventType at entry k of
\* the trace: the first one since it was last unsubscribed (0: not in the Set).
EnrolledAt(k, eventType, handler) ==
  LET lastOut == MaxOf({0} \cup {u \in Indices("unsubscribe") :
                           u < k /\ IsCall(u, "unsubscribe", eventType, handler)})
      since == {s \in Indices("subscribe") :
                  /\ lastOut < s /\ s < k
                  /\ IsCall(s, "subscribe", eventType, handler)}
  IN IF since = {} THEN 0 ELSE MinOf(since)

\* C17: the subscribers of an event are invoked in the order in which they
\* were enrolled for its type: of two handle invocations for one event, the
\* earlier one is on the subscriber that entered the Set first (a subscribe
\* call of a subscriber that is in the Set already does not move it).
C17_InvokedInEnrollmentOrder ==
  LET handles == Handles
  IN \A i \in handles : \A j \in handles :
       (i < j /\ trace[i].pub = trace[j].pub /\ trace[i].obs # trace[j].obs)
         => EnrolledAt(i, trace[i].type, trace[i].obs)
              < EnrolledAt(j, trace[j].type, trace[j].obs)

\* sale1, sale2 and sale1 again were subscribed to Sale, and the Sale event
\* published then invoked sale1 before sale2.
C17_Witness ==
  /\ Len(trace) > 3
  /\ IsCall(1, "subscribe", Sale, "sale1")
  /\ IsCall(2, "subscribe", Sale, "sale2")
  /\ IsCall(3, "subscribe", Sale, "sale1")
  /\ \E i \in Handles : \E j \in Handles :
       /\ i < j
       /\ trace[i].pub = trace[j].pub
       /\ trace[i].obs = "sale1" /\ trace[j].obs = "sale2"
       /\ Ended(trace[i].pub)

\* nothing is registered for eventType: the Map has no Set for it, or an empty one
NoObservers(eventType) == subscribersOf(eventType) = <<>>
\* the step is a call of publish by the program or by a custom handler
IsPublishStep ==
  /\ Len(trace') > Len(trace)
  /\ trace'[Len(trace) + 1].op = "publish"
  /\ trace'[Len(trace) + 1].src # "machine"
\* the service is delivering an event of a type nothing is registered for
DeliversToNobody ==
  /\ stack # <<>>
  /\ Top.kind = "handle"
  /\ NoObservers(Top.event.type)

\* C18: publishing an event of a type with no registered subscriber has no
\* effect: the publish call leaves the registry, the stock levels and the
\* queue as they were, and the delivery that follows invokes no handler,
\* changes neither registry nor stock, and ends with publish returning to its
\* caller and the queue empty.
C18_NoObserversNoEffect ==
  [][ /\ (IsPublishStep /\ NoObservers(trace'[Len(trace) + 1].type)) =>
           /\ subscriptions' = subscriptions
           /\ subscriptionTimestamps' = subscriptionTimestamps
           /\ stockLevel' = stockLevel
           /\ eventQueue' = eventQueue
           /\ Len(trace') = Len(trace) + 2
      /\ DeliversToNobody =>
           /\ subscriptions' = subscriptions
           /\ subscriptionTimestamps' = subscriptionTimestamps
           /\ stockLevel' = stockLevel
           /\ eventQueue' = <<>>
           /\ stack' = SubSeq(stack, 1, Len(stack) - 1)
           /\ trace' = Append(trace, trace'[Len(trace')])
           /\ trace'[Len(trace')].op = "end"
    ]_vars

\* warn1 is subscribed to LowStockWarning and sale2 was subscribed to Sale and
\* unsubscribed again; a Sale event was published, went through the queue and
\* its delivery is over: no handler was invoked and the stock is untouched.
C18_Witness ==
  /\ stack = <<>> /\ eventQueue = <<>>
  /\ subscribersOf(Sale) = <<>> /\ Sale \in DOMAIN subscriptions
  /\ subscribersOf(LowStockWarning) = <<"warn1">>
  /\ \A m \in Machines : stockLevel[m] \in InitStockLevels
  /\ \E pub \in PubIds :
       /\ TypeOf(pub) = Sale /\ Ended(pub)
       /\ \A o \in Subscribers :
            /\ EnrolledAt(PublishAt(pub), Sale, o) = 0
            /\ HandleCount(o, pub) = 0

\* the step is a call subscribe(eventType, handler)
IsSubscribeStep(eventType, handler) ==
  /\ Len(trace') = Len(trace) + 1
  /\ trace'[Len(trace')].op = "subscribe"
  /\ trace'[Len(trace')].type = eventType
  /\ trace'[Len(trace')].obs = handler

\* C19: subscribing a subscriber that is enrolled already (it is in the Set of
\* the type) leaves the recorded subscription times as they are, so the time
\* kept for it stays that of the subscribe call that enrolled it.
C19_ResubscribeKeepsTimestamp ==
  [][ \A s \in SubscriptionInputs :
        (IsSubscribeStep(s[1], s[2]) /\ IndexOf(subscribersOf(s[1]), s[2]) # 0)
          => subscriptionTimestamps' = subscriptionTimestamps ]_vars

\* ====================================================================
\* The Queue as the code builds it: LinkedList nodes on the heap, with the
\* head and tail references of the Queue object.  In specification
\* QueueSpec the variable eventQueue holds this structure and the trace
\* holds the enqueue and dequeue calls made, with what dequeue returned.
\* ====================================================================
\* calls of enqueue and dequeue
MaxQueueOps == 6

\* a reference that is undefined
NoNode == 0
\* the value dequeue returns for an empty queue
Undefined == "undefined"
QueueItems == {"e1", "e2"}

\* new LinkedList<T>(value): next is undefined
LinkedList(value) == [value |-> value, next |-> NoNode]
\* new Queue<T>(); nodes is the heap, a node's reference is its index
NewQueue == [head |-> NoNode, tail |-> NoNode, nodes |-> <<>>]

\* (mutant: the new node is linked in before the head)
QueueEnqueueAtHead(Q, item) ==
  LET newNode == Len(Q.nodes) + 1
      heap == Append(Q.nodes, [value |-> item, next |-> Q.head])
  IN IF Q.tail = NoNode
       THEN [head |-> newNode, tail |-> newNode, nodes |-> heap]
       ELSE [head |-> newNode, tail |-> Q.tail, nodes |-> heap]

QueueEnqueue(Q, item) ==
  LET newNode == Len(Q.nodes) + 1
      heap == Append(Q.nodes, LinkedList(item))
  IN IF Q.tail = NoNode
       THEN [head |-> newNode, tail |-> newNode, nodes |-> heap]
       ELSE [head |-> Q.head, tail |-> newNode,
             nodes |-> [heap EXCEPT ![Q.tail].next = newNode]]

\* (mutant: taking the last node resets head and leaves tail on that node)
QueueDequeueRestKeepsTail(Q) ==
  IF Q.head = NoNode
    THEN Q
    ELSE IF Q.nodes[Q.head].next = NoNode
           THEN [Q EXCEPT !.head = NoNode]
           ELSE [Q EXCEPT !.head = Q.nodes[Q.head].next]
\* dequeue(): the value returned and the Queue left
QueueDequeueItem(Q) ==
  IF Q.head = NoNode THEN Undefined ELSE Q.nodes[Q.head].value
QueueDequeueRest(Q) ==
  IF Q.head = NoNode
    THEN Q
    ELSE IF Q.nodes[Q.head].next = NoNode
           THEN [Q EXCEPT !.head = NoNode, !.tail = NoNode]
           ELSE [Q EXCEPT !.head = Q.nodes[Q.head].next]

QueueCall(op, item) == [op |-> op, item |-> item]

QueueInit ==
  /\ eventQueue = NewQueue
  /\ trace = <<>>
  /\ subscriptions = <<>>
  /\ subscriptionTimestamps = <<>>
  /\ stockLevel \in [Machines -> InitStockLevels]
  /\ now = 0
  /\ stack = <<>>
  /\ suspended = 0
  /\ raised = FALSE

Enqueue(item) ==
  /\ Len(trace) < MaxQueueOps
  /\ eventQueue' = QueueEnqueue(eventQueue, item)
  /\ trace' = Append(trace, QueueCall("enqueue", item))
  /\ UNCHANGED <<subscriptions, subscriptionTimestamps, stockLevel, now, stack,
                 suspended, raised>>

Dequeue ==
  /\ Len(trace) < MaxQueueOps
  /\ eventQueue' = QueueDequeueRest(eventQueue)
  /\ trace' = Append(trace, QueueCall("dequeue", QueueDequeueItem(eventQueue)))
  /\ UNCHANGED <<subscriptions, subscriptionTimestamps, stockLevel, now, stack,
                 suspended, raised>>

QueueNext ==
  \/ \E item \in QueueItems : Enqueue(item)
  \/ Dequeue

QueueSpec == QueueInit /\ [][QueueNext]_vars

\* ---- properties of the Queue
RECURSIVE ItemsFrom(_, _)
\* the values of the nodes reached from node n by following next
ItemsFrom(Q, n) ==
  IF n = NoNode
    THEN <<>>
    ELSE <<Q.nodes[n].value>> \o ItemsFrom(Q, Q.nodes[n].next)

RECURSIVE AbstractQueue(_)
\* the sequence that the first k calls of the trace leave when enqueue
\* appends at the tail and dequeue removes at the head
AbstractQueue(k) ==
  IF k = 0
    THEN <<>>
    ELSE LET q == AbstractQueue(k - 1)
         IN IF trace[k].op = "enqueue"
              THEN enqueue(q, trace[k].item)
              ELSE IF q = <<>> THEN q ELSE dequeueRest(q)

\* C20: the linked-list Queue is first in, first out: every dequeue call
\* returned what the sequence of the calls before it holds at its head
\* (undefined when it is empty), and the nodes linked from head hold that
\* sequence.
C20_QueueIsFifo ==
  /\ \A k \in DOMAIN trace :
       trace[k].op = "dequeue" =>
         trace[k].item = (IF AbstractQueue(k - 1) = <<>>
                            THEN Undefined
                            ELSE dequeueItem(AbstractQueue(k - 1)))
  /\ ItemsFrom(eventQueue, eventQueue.head) = AbstractQueue(Len(trace))

\* enqueue e1, enqueue e2, dequeue, enqueue e1, dequeue, dequeue: the three
\* dequeue calls returned e1, e2 and e1.
C20_Witness ==
  trace = << QueueCall("enqueue", "e1"), QueueCall("enqueue", "e2"),
             QueueCall("dequeue", "e1"), QueueCall("enqueue", "e1"),
             QueueCall("dequeue", "e2"), QueueCall("dequeue", "e1") >>

\* ====================================================================
\* The program: it registers its subscribers with the service and then
\* publishes Sale and Refill events (the main program of app.ts).  The
\* specification starts when the subscribers are registered, at clock 0,
\* and publishes up to MaxEvents events between deliveries.
\* ====================================================================
\* events the program publishes
MaxEvents == 2

ProgramMachines == {"001", "002"}

\* The registry after subscribe(calls[1]), ..., subscribe(calls[n]) on a new
\* service, all at clock 0: the Set of each type in insertion order and one
\* timestamp for each key.
RECURSIVE Registered(_)
Registered(calls) ==
  IF calls = <<>>
    THEN [subscriptions |-> <<>>, subscriptionTimestamps |-> <<>>]
    ELSE LET r == Registered(SubSeq(calls, 1, Len(calls) - 1))
             eventType == calls[Len(calls)][1]
             handler == calls[Len(calls)][2]
             key == getSubscriptionKey(eventType, handler)
         IN [subscriptions |->
               IF eventType \notin DOMAIN r.subscriptions
                 THEN r.subscriptions @@ (eventType :> <<handler>>)
                 ELSE [r.subscriptions EXCEPT ![eventType] = SetAdd(@, handler)],
             subscriptionTimestamps |->
               IF key \notin DOMAIN r.subscriptionTimestamps
                 THEN r.subscriptionTimestamps @@ (key :> 0)
                 ELSE r.subscriptionTimestamps]

\* the four subscribers of the program, each on its own event type
CanonicalRegistration ==
  << <<Sale, "sale1">>, <<Refill, "refill1">>,
     <<LowStockWarning, "warn1">>, <<StockLevelOk, "ok1">> >>
\* the same with a second MachineSaleSubscriber sharing the machines
TwoSaleRegistration ==
  << <<Sale, "sale1">>, <<Sale, "sale2">>, <<Refill, "refill1">>,
     <<LowStockWarning, "warn1">>, <<StockLevelOk, "ok1">> >>
\* subscribers registered to event types they do not handle
MismatchedRegistration ==
  << <<Sale, "sale1">>, <<Sale, "warn1">>, <<Sale, "refill1">>,
     <<Refill, "sale2">>, <<LowStockWarning, "ok1">> >>
\* a subscriber whose handle throws, between two that do not
ThrowingRegistration ==
  << <<Sale, "sale1">>, <<Sale, "thrower1">>, <<Sale, "sale2">>,
     <<LowStockWarning, "warn1">> >>
Registrations ==
  {CanonicalRegistration, TwoSaleRegistration, MismatchedRegistration,
   ThrowingRegistration}

\* "999" is the id of no machine
ProgramEvents ==
  {MachineSaleEvent("001", 1), MachineRefillEvent("001", 3),
   MachineSaleEvent("999", 1), MachineRefillEvent("999", 3)}

\* The record of an event the program publishes: what it carries.
EventCall(event) ==
  [op |-> "event", type |-> event.type, obs |-> NoSubscriber,
   pub |-> PublishCount + 1, src |-> "external", time |-> 0, depth |-> 0,
   parent |-> 0, machineId |-> event.machineId, qty |-> event.qty]

ProgramInit ==
  /\ \E calls \in Registrations :
       /\ subscriptions = Registered(calls).subscriptions
       /\ subscriptionTimestamps = Registered(calls).subscriptionTimestamps
  /\ eventQueue = <<>>
  /\ stockLevel \in [ProgramMachines -> InitStockLevels]
  /\ now = 0
  /\ stack = <<>>
  /\ suspended = 0
  /\ raised = FALSE
  /\ trace = <<>>

\* pubSubService.publish(event) called by the program
PublishEvent(event) ==
  /\ stack = <<>>
  /\ Cardinality(Indices("event")) < MaxEvents
  /\ publish(stack, Append(trace, EventCall(event)), event, "external")
  /\ UNCHANGED <<subscriptions, subscriptionTimestamps, stockLevel,
                 suspended, raised>>

ProgramNext ==
  \/ \E event \in ProgramEvents : PublishEvent(event)
  \/ HandleNext
  \/ HandleReturn
  \/ ResumeProcessEvents

ProgramSpec == ProgramInit /\ [][ProgramNext]_vars

\* ---- properties of the subscribers (specification ProgramSpec)
\* the step is a round of forEach that invokes handle on a subscriber
IsHandleStep ==
  /\ stack # <<>>
  /\ Top.kind = "handle"
  /\ Len(trace') > Len(trace)
  /\ trace'[Len(trace) + 1].op = "handle"
\* the subscriber that a handle step invokes
Invoked == trace'[Len(trace) + 1].obs
\* handle returned to forEach and did nothing: no stock level changed, nothing
\* was published or thrown
HandleDidNothing ==
  /\ stockLevel' = stockLevel
  /\ eventQueue' = eventQueue
  /\ raised' = raised
  /\ trace' = Append(trace, trace'[Len(trace) + 1])
  /\ stack' = [stack EXCEPT ![Len(stack)].idx = @ + 1]
\* the records of the events the program published
EventCalls == Indices("event")

\* C21: a Sale or Refill subscriber that is handed an event naming the id of
\* no machine ignores it: handle returns without an error, no stock level
\* changes and no event is published.
C21_UnknownMachineIgnored ==
  [][ ( /\ IsHandleStep
        /\ ClassName[Invoked] \in
             {"MachineSaleSubscriber", "MachineRefillSubscriber"}
        /\ Top.event.machineId \notin DOMAIN stockLevel )
      => HandleDidNothing ]_vars

\* A Sale and a Refill event for machine "999" were published and handled by
\* sale1 and by refill1; the deliveries are over, every machine has the stock
\* it started with and no publish call was made but the program's two.
C21_Witness ==
  /\ stack = <<>> /\ raised = FALSE
  /\ \A m \in DOMAIN stockLevel : stockLevel[m] \in InitStockLevels
  /\ Cardinality(Indices("publish")) = 2
  /\ \E a \in EventCalls : \E b \in EventCalls :
       /\ trace[a].type = Sale /\ trace[a].machineId = "999"
       /\ HandleCount("sale1", trace[a].pub) = 1 /\ Ended(trace[a].pub)
       /\ trace[b].type = Refill /\ trace[b].machineId = "999"
       /\ HandleCount("refill1", trace[b].pub) = 1 /\ Ended(trace[b].pub)

\* the event type that a subscriber of the given class reacts to
HandledType(class) ==
  CASE class = "MachineSaleSubscriber" -> Sale
    [] class = "MachineRefillSubscriber" -> Refill
    [] class = "MachineLowStockWarningSubscriber" -> LowStockWarning
    [] class = "MachineStockLevelOkSubscriber" -> StockLevelOk
    [] OTHER -> "NONE"

\* C22: a subscriber that is handed an event of a type it does not react to
\* (a Sale subscriber a Refill event, a LowStockWarning subscriber a Sale
\* event, ...) does nothing: handle returns without an error, no stock level
\* changes and no event is published.
C22_OtherEventTypeIgnored ==
  [][ ( /\ IsHandleStep
        /\ HandledType(ClassName[Invoked]) # "NONE"
        /\ HandledType(ClassName[Invoked]) # Top.event.type )
      => HandleDidNothing ]_vars

\* With subscribers registered to types they do not handle: a Sale event of
\* machine "001" was handled by sale1, warn1 and refill1, the LowStockWarning
\* it caused by ok1, and a Refill event of "001" by sale2; the stock of "001"
\* shows sale1's consumption and nothing else.
C22_Witness ==
  /\ stack = <<>> /\ raised = FALSE
  /\ stockLevel["001"] = 2
  /\ \E a \in EventCalls : \E b \in EventCalls : \E w \in PubIds :
       /\ trace[a].type = Sale /\ trace[a].machineId = "001"
       /\ HandleCount("sale1", trace[a].pub) = 1
       /\ HandleCount("warn1", trace[a].pub) = 1
       /\ HandleCount("refill1", trace[a].pub) = 1
       /\ TypeOf(w) = LowStockWarning /\ HandleCount("ok1", w) = 1
       /\ trace[b].type = Refill /\ trace[b].machineId = "001"
       /\ HandleCount("sale2", trace[b].pub) = 1
       /\ Ended(trace[a].pub) /\ Ended(trace[b].pub)

\* C23: an error thrown by a subscriber's handle during a delivery leaves
\* the publish call that started the delivery: once a handler has thrown and
\* that call is over, a call of the service has raised the error.
C23_HandlerErrorLeavesPublish ==
  (Indices("throw") # {} /\ stack = <<>>) => raised = TRUE

ProgramFairSpec ==
  /\ ProgramSpec
  /\ WF_vars(HandleNext)
  /\ WF_vars(HandleReturn)
  /\ WF_vars(ResumeProcessEvents)

\* only the four subscribers of the program are registered
CanonicalOnly ==
  /\ subscriptions = Registered(CanonicalRegistration).subscriptions
  /\ subscriptionTimestamps =
       Registered(CanonicalRegistration).subscriptionTimestamps
\* no _handle is running, no loop is suspended and the queue is empty
Quiescent == stack = <<>> /\ suspended = 0 /\ eventQueue = <<>>
\* every event published so far was delivered, and every loop has ended
AllDrained == Quiescent /\ \A pub \in PubIds : Ended(pub)
\* Each event began its delivery once at most; a publish call by a machine
\* directly follows the handle invocation of a Sale or Refill subscriber, so
\* there is one at most for each invocation; the event it publishes is a
\* LowStockWarning or StockLevelOk and its delivery publishes nothing.
BoundedDerivation ==
  /\ \A pub \in PubIds :
       Cardinality({b \in Indices("begin") : trace[b].pub = pub}) <= 1
  /\ \A p \in Indices("publish") :
       IF trace[p].src = "machine"
         THEN /\ trace[p - 1].op = "handle"
              /\ ClassName[trace[p - 1].obs] \in
                   {"MachineSaleSubscriber", "MachineRefillSubscriber"}
              /\ trace[p].type \in {LowStockWarning, StockLevelOk}
              /\ trace[p].parent = trace[p - 1].pub
              /\ TypeOf(trace[p].parent) \in {Sale, Refill}
         ELSE trace[p].parent = 0

\* C25: with only the four subscribers of the program registered, a publish
\* call delivers its event and at most one derived event for each invocation
\* of the Sale or Refill subscriber, these publish nothing further, and after
\* any publish call the service comes to rest: every published event was
\* delivered and every loop of _processEvents has ended with the queue empty.
C25_PublishTerminates ==
  /\ [](CanonicalOnly => BoundedDerivation)
  /\ (CanonicalOnly /\ PubIds # {}) ~> AllDrained

\* With the four subscribers: a Sale event took machine "001" to the
\* threshold and a Refill event took it back above; both derived events
\* were delivered to their subscribers and the service is at rest.
C25_Witness ==
  /\ CanonicalOnly /\ AllDrained
  /\ Cardinality(PubIds) = 4
  /\ \E w \in PubIds : \E k \in PubIds :
       /\ TypeOf(w) = LowStockWarning /\ HandleCount("warn1", w) = 1
       /\ TypeOf(k) = StockLevelOk /\ HandleCount("ok1", k) = 1
       /\ w < k

\* C26: unsubscribe(T, O) of an enrolled O removes O alone.  After unsubscribe
\* calls of enrolled subscribers only, an event whose delivery is over has
\* invoked handle exactly once on every other subscriber that was subscribed
\* to its type before the publish call and never unsubscribed, another object
\* of the class of O included.
C26_UnsubscribeRemovesOnlyThat ==
  (\A u \in Indices("unsubscribe") :
     EnrolledBefore(u, trace[u].type, trace[u].obs))
  => \A u \in Indices("unsubscribe") : \A pub \in PubIds :
       (u < PublishAt(pub) /\ Ended(pub))
         => \A o \in Subscribers :
              ( /\ <<TypeOf(pub), o>> # <<trace[u].type, trace[u].obs>>
                /\ EnrolledThroughoutSince(PublishAt(pub), TypeOf(pub), o) )
              => HandleCount(o, pub) = 1

\* handler is in the Set kept for eventType
InSet(eventType, handler) == IndexOf(subscribersOf(eventType), handler) # 0
\* a subscription time is kept under the key of (eventType, handler)
HasTimestamp(eventType, handler) ==
  getSubscriptionKey(eventType, handler) \in DOMAIN subscriptionTimestamps

\* C27: the two maps of the registry agree in every state: a subscriber is in
\* the Set of a type if and only if a subscription time is kept under the key
\* of that type and subscriber, and two different (type, subscriber) pairs
\* that are enrolled keep their times under different keys.
C27_RegistryConsistent ==
  /\ \A eventType \in EventType : \A handler \in Subscribers :
       InSet(eventType, handler) <=> HasTimestamp(eventType, handler)
  /\ \A t1 \in EventType : \A t2 \in EventType :
       \A o1 \in Subscribers : \A o2 \in Subscribers :
         (InSet(t1, o1) /\ InSet(t2, o2) /\ <<t1, o1>> # <<t2, o2>>)
           => getSubscriptionKey(t1, o1) # getSubscriptionKey(t2, o2)

\* ---- the handle time of a delivery (specification Spec)
\* the entries at which _handle was entered for the event of publish call pub
BeginsOf(pub) == {b \in Indices("begin") : trace[b].pub = pub}
\* the value of Date.now() that _handle read when it was entered for pub
DeliveryTime(pub) == trace[CHOOSE b \in BeginsOf(pub) : TRUE].time
\* the step is a round of the forEach of the running _handle
IsVisitStep ==
  /\ stack # <<>>
  /\ Top.kind = "handle"
  /\ Top.idx < Len(subscribersOf(Top.event.type))
  /\ stack' # stack
\* the subscriber that the round is about
Visited == subscribersOf(Top.event.type)[Top.idx + 1]
\* the round invokes handle on that subscriber for the event being delivered
VisitInvokes ==
  /\ Len(trace') > Len(trace)
  /\ trace'[Len(trace) + 1].op = "handle"
  /\ trace'[Len(trace) + 1].obs = Visited
  /\ trace'[Len(trace) + 1].pub = Top.event.pub

\* C28: _handle reads the clock once for each event it delivers, before it
\* invokes any subscriber (every handle invocation for the event comes after
\* that one reading, and the running _handle holds that value), and each
\* round of forEach compares against that value: the subscriber in the Set is
\* invoked if and only if the subscription time kept under its key is less
\* than or equal to it, an equal time included.
C28_OneHandleTime ==
  /\ [](\A pub \in PubIds :
          /\ Cardinality(BeginsOf(pub)) = 1
          /\ \A h \in Handles : \A b \in BeginsOf(pub) :
               trace[h].pub = pub => b < h)
  /\ [](\A f \in DOMAIN stack :
          stack[f].kind = "handle"
            => stack[f].handleTime = DeliveryTime(stack[f].event.pub))
  /\ [][ IsVisitStep =>
           ( VisitInvokes <=>
               /\ HasTimestamp(Top.event.type, Visited)
               /\ subscriptionTimestamps[
                    getSubscriptionKey(Top.event.type, Visited)]
                    <= DeliveryTime(Top.event.pub) ) ]_vars

\* custom1 subscribed to Sale at time 0 and a Sale event was delivered with
\* handle time 0: custom1 was invoked (equal times), its handler subscribed
\* sale1 to Sale at time 1, and sale1, though in the Set before forEach was
\* over, was not invoked for the event.
C28_Witness ==
  /\ PubIds # {}
  /\ \E pub \in PubIds : \E s \in Indices("subscribe") :
       /\ Ended(pub) /\ TypeOf(pub) = Sale
       /\ DeliveryTime(pub) = 0
       /\ HandleCount("custom1", pub) = 1
       /\ IsCall(s, "subscribe", Sale, "sale1")
       /\ trace[s].src = "handler" /\ trace[s].pub = pub /\ trace[s].time = 1
       /\ InSet(Sale, "sale1")
       /\ subscriptionTimestamps[getSubscriptionKey(Sale, "sale1")] = 1
       /\ HandleCount("sale1", pub) = 0

\* ---- stock levels and handle invocations (specification ProgramSpec)
\* the stock every machine of the program starts with
ProgramStartLevel == CHOOSE level \in InitStockLevels : TRUE
\* what the event of publish call pub carries, from the record of the call
EventCallOf(pub) == CHOOSE e \in EventCalls : trace[e].pub = pub
MachineOf(pub) == trace[EventCallOf(pub)].machineId
QtyOf(pub) == trace[EventCallOf(pub)].qty
\* the handle invocations, on subscribers of the given class, for events of
\* the given type that name machine m
StockHandles(m, eventType, class) ==
  {h \in Handles : /\ trace[h].type = eventType
                   /\ ClassName[trace[h].obs] = class
                   /\ MachineOf(trace[h].pub) = m}
RECURSIVE SumQty(_)
\* the quantities of the events of a set of handle invocations, added up
SumQty(H) ==
  IF H = {}
    THEN 0
    ELSE LET h == CHOOSE x \in H : TRUE
         IN QtyOf(trace[h].pub) + SumQty(H \ {h})

\* C29: the stock of a machine changes by handle invocations only, by the
\* quantity of the event each time.  In every state the stock of machine m is
\* what it started with, less q for every invocation of a Sale subscriber for
\* a Sale event (m, q), plus q for every invocation of a Refill subscriber for
\* a Refill event (m, q): an event delivered to k of them changes m by k*q and
\* leaves the other machines alone.  A step changes a stock level only when it
\* is such an invocation, so publish, _processEvents and _handle change none.
C29_StockChangesByHandleOnly ==
  /\ [](\A m \in ProgramMachines :
          stockLevel[m] =
            ProgramStartLevel
              - SumQty(StockHandles(m, Sale, "MachineSaleSubscriber"))
              + SumQty(StockHandles(m, Refill, "MachineRefillSubscriber")))
  /\ [][ stockLevel' # stockLevel =>
           /\ IsHandleStep
           /\ Top.event.qty > 0
           /\ Top.event.machineId \in ProgramMachines
           /\ \/ /\ Top.event.type = Sale
                 /\ ClassName[Invoked] = "MachineSaleSubscriber"
                 /\ stockLevel' =
                      [stockLevel EXCEPT ![Top.event.machineId] = @ - Top.event.qty]
              \/ /\ Top.event.type = Refill
                 /\ ClassName[Invoked] = "MachineRefillSubscriber"
                 /\ stockLevel' =
                      [stockLevel EXCEPT ![Top.event.machineId] = @ + Top.event.qty]
         ]_vars

\* With two Sale subscribers registered, the Sale event ("001", 1) invoked
\* both and the Refill event ("001", 3) invoked refill1: machine "001" went
\* from 3 to 1 to 4 and machine "002" still has 3.
C29_Witness ==
  /\ stack = <<>> /\ suspended = 0
  /\ stockLevel["001"] = 4 /\ stockLevel["002"] = 3
  /\ \E a \in EventCalls : \E b \in EventCalls :
       /\ a < b
       /\ trace[a].type = Sale /\ trace[a].machineId = "001"
       /\ HandleCount("sale1", trace[a].pub) = 1
       /\ HandleCount("sale2", trace[a].pub) = 1
       /\ Ended(trace[a].pub)
       /\ trace[b].type = Refill /\ trace[b].machineId = "001"
       /\ HandleCount("refill1", trace[b].pub) = 1
       /\ Ended(trace[b].pub)

\* ---- the end of _processEvents (specification Spec)
\* the step resumes a suspended loop whose dequeue returns undefined: the
\* while condition fails and the invocation of _processEvents ends
LoopEnds == suspended' < suspended /\ stack' = <<>>
\* every invocation of _processEvents made so far has ended: none is running
\* in a delivery and none is suspended at its await
NoLoopLeft == stack = <<>> /\ suspended = 0

\* C30: a loop of _processEvents ends only on an empty queue: the step in
\* which a resumed loop ends finds the queue empty and leaves it empty, and
\* in every state in which all the loops started so far have ended the queue
\* holds no event.
C30_LoopEndsOnEmptyQueue ==
  /\ [][ LoopEnds => (eventQueue = <<>> /\ eventQueue' = <<>>) ]_vars
  /\ [](NoLoopLeft => eventQueue = <<>>)

\* A handler's machine published a derived event during the delivery of a
\* Sale event: two loops of _processEvents were started, both deliveries are
\* over and both loops have ended.
C30_Witness ==
  /\ NoLoopLeft /\ eventQueue = <<>>
  /\ Cardinality(Indices("end")) >= 2
  /\ \E pub \in PubIds :
       ParentOf(pub) # 0 /\ Ended(pub) /\ Ended(ParentOf(pub))

\* ---- the empty Queue (specification QueueSpec)
\* the step is a call of dequeue
IsDequeueStep ==
  /\ Len(trace') = Len(trace) + 1
  /\ trace'[Len(trace')].op = "dequeue"
\* the step is a call of enqueue
IsEnqueueStep ==
  /\ Len(trace') = Len(trace) + 1
  /\ trace'[Len(trace')].op = "enqueue"

\* C31: head is undefined if and only if tail is; a dequeue call on the empty
\* Queue returns undefined and leaves the Queue as it is; and an enqueue(x)
\* call on the empty Queue, however often it was drained before, leaves a
\* Queue whose next dequeue returns x.
C31_EmptyQueueRestarts ==
  /\ []((eventQueue.head = NoNode) <=> (eventQueue.tail = NoNode))
  /\ [][ (IsDequeueStep /\ eventQueue.head = NoNode)
           => /\ trace'[Len(trace')].item = Undefined
              /\ eventQueue' = eventQueue ]_vars
  /\ [][ (IsEnqueueStep /\ eventQueue.head = NoNode)
           => /\ QueueDequeueItem(eventQueue') = trace'[Len(trace')].item
              /\ QueueDequeueRest(eventQueue').head = NoNode ]_vars

\* The Queue was drained to empty twice and used again each time: enqueue e1,
\* dequeue (e1), dequeue (undefined), enqueue e2, dequeue (e2), dequeue
\* (undefined).
C31_Witness ==
  /\ trace = << QueueCall("enqueue", "e1"), QueueCall("dequeue", "e1"),
                QueueCall("dequeue", Undefined), QueueCall("enqueue", "e2"),
                QueueCall("dequeue", "e2"), QueueCall("dequeue", Undefined) >>
  /\ eventQueue.head = NoNode /\ eventQueue.tail = NoNode

\* ---- adjustments by zero (specification MachineSpec)
\* the calls of consumeStock and refillStock with amount 0
ZeroCalls == {i \in StockCalls : trace[i].amount = 0}

\* C32: consumeStock(0) and refillStock(0) do nothing: the call leaves the
\* stock level it found, at the threshold as anywhere else, and publishes no
\* event (nothing is recorded between the call and the next one).
C32_ZeroAmountIsNoOp ==
  \A i \in ZeroCalls :
    /\ LevelAfter(i) = LevelBefore(i)
    /\ PublishedBy(i, LowStockWarning) = {}
    /\ PublishedBy(i, StockLevelOk) = {}
    /\ i < Len(trace) => (i + 1) \in StockCalls

\* A machine at the threshold: consumeStock(0) and refillStock(0) were
\* called, the level is still the threshold and nothing was published.
C32_Witness ==
  /\ \E a \in ZeroCalls : \E b \in ZeroCalls :
       /\ trace[a].op = "consumeStock" /\ trace[b].op = "refillStock"
       /\ LevelBefore(a) = LowStockThreshold
       /\ LevelBefore(b) = LowStockThreshold
  /\ \A m \in Machines : stockLevel[m] = LowStockThreshold
  /\ Indices("publish") = {}

\* ---- each event is dequeued once (specification Spec)
\* the places of the queue that hold the event of publish call pub
QueuedAt(pub) == {i \in DOMAIN eventQueue : eventQueue[i].pub = pub}
\* the entries at which the delivery of the event of publish call pub ended
EndsOf(pub) == {e \in Indices("end") : trace[e].pub = pub}

\* C33: every published event is dequeued exactly once, whichever loops of
\* _processEvents are alive: it is either in the queue, once, or was taken
\* from it by exactly one loop, never both; no event ends its delivery twice;
\* and when no loop is left every published event has been delivered.
C33_DequeuedExactlyOnce ==
  \A pub \in PubIds :
    /\ Cardinality(BeginsOf(pub)) + Cardinality(QueuedAt(pub)) = 1
    /\ Cardinality(EndsOf(pub)) <= 1
    /\ EndsOf(pub) # {} => BeginsOf(pub) # {}
    /\ NoLoopLeft => (BeginsOf(pub) # {} /\ EndsOf(pub) # {})

\* Three loops are alive at once: the loop of a first publish call is
\* suspended at its await, and a handler invoked by the loop of a second
\* publish call has published a third event, which its own loop is
\* delivering.
C33_Witness ==
  /\ suspended >= 1
  /\ Len(stack) >= 3
  /\ stack[1].kind = "handle" /\ stack[Len(stack)].kind = "handle"
  /\ Cardinality(PubIds) >= 3
  /\ \E pub \in PubIds : Ended(pub)
  /\ \A pub \in PubIds : Cardinality(BeginsOf(pub)) = 1

\* ---- the length of the queue (specification Spec)
\* the step makes a publish call, by the program, a handler or a machine
MakesPublishCall ==
  \E i \in (Len(trace) + 1)..Len(trace') : trace'[i].op = "publish"
\* publish is not running: the program or the body of a handler is, or a
\* loop is about to be resumed
OutsidePublish == CallerReady

\* C34: the queue never holds more than one event.  It is empty in every
\* state between the steps of the service, inside handlers and between the
\* resumptions of suspended loops included; a publish call finds it empty,
\* holds one event after its enqueue and has it empty again when its loop
\* has taken the event, and so when publish returns.
C34_QueueHoldsOneAtMost ==
  /\ [](Len(eventQueue) <= 1)
  /\ [](OutsidePublish => eventQueue = <<>>)
  /\ [][ MakesPublishCall =>
           /\ eventQueue = <<>>
           /\ \A event \in EventInputs : Len(enqueue(eventQueue, event)) = 1
           /\ eventQueue' = <<>> ]_vars

\* A first publish call has returned and its loop is suspended; during the
\* delivery of a second event a Sale subscriber took its machine to the
\* threshold and the machine's LowStockWarning is being delivered, nested:
\* the queue is empty.
C34_Witness ==
  /\ suspended >= 1
  /\ Len(stack) >= 2
  /\ stack[Len(stack)].kind = "handle"
  /\ stack[Len(stack)].event.type = LowStockWarning
  /\ eventQueue = <<>>

\* ====================================================================
\* Machines adjusted by the program and by handlers: a subscriber of the
\* caller is registered for LowStockWarning and StockLevelOk, and the
\* program, or the body of that subscriber's handle while a derived event
\* is being delivered, calls consumeStock and refillStock of the machines.
\* ====================================================================
ReentrantStockLevels == {2, 3}
ReentrantAmounts == {1}
DerivedRegistration ==
  << <<LowStockWarning, "custom1">>, <<StockLevelOk, "custom1">> >>

ReentrantInit ==
  /\ subscriptions = Registered(DerivedRegistration).subscriptions
  /\ subscriptionTimestamps =
       Registered(DerivedRegistration).subscriptionTimestamps
  /\ eventQueue = <<>>
  /\ stockLevel \in [ProgramMachines -> ReentrantStockLevels]
  /\ now = 0
  /\ stack = <<>>
  /\ suspended = 0
  /\ raised = FALSE
  /\ trace = <<>>

\* machine.consumeStock(amount) called by the program or by a handler body
CallConsumeStock(m, amount) ==
  /\ CallerReady
  /\ Cardinality(StockCalls) < MaxAdjustments
  /\ consumeStock(stack, Append(trace, StockCall("consumeStock", m, amount)),
                  m, amount)
  /\ UNCHANGED <<subscriptions, subscriptionTimestamps, suspended, raised>>

\* machine.refillStock(amount) called by the program or by a handler body
CallRefillStock(m, amount) ==
  /\ CallerReady
  /\ Cardinality(StockCalls) < MaxAdjustments
  /\ refillStock(stack, Append(trace, StockCall("refillStock", m, amount)),
                 m, amount)
  /\ UNCHANGED <<subscriptions, subscriptionTimestamps, suspended, raised>>

ReentrantNext ==
  \/ \E m \in ProgramMachines : \E amount \in ReentrantAmounts :
       CallConsumeStock(m, amount)
  \/ \E m \in ProgramMachines : \E amount \in ReentrantAmounts :
       CallRefillStock(m, amount)
  \/ HandleNext
  \/ HandleReturn
  \/ HandlerReturn
  \/ ResumeProcessEvents

ReentrantSpec == ReentrantInit /\ [][ReentrantNext]_vars

\* ---- properties of the derived events (specification ReentrantSpec)
\* the calls of consumeStock and refillStock of machine m
StockCallsOf(m) == {i \in StockCalls : trace[i].machineId = m}
\* the publish calls machine m made: each follows the record of the call of
\* consumeStock or refillStock that made it
DerivedOf(m) ==
  {p \in Indices("publish") :
     /\ trace[p].src = "machine"
     /\ (p - 1) \in StockCallsOf(m)}

\* C35: the events a machine publishes alternate between LowStockWarning and
\* StockLevelOk in the order of its publish calls, calls of consumeStock and
\* refillStock made by handlers during the delivery of a derived event
\* included; the first is a LowStockWarning when the machine started above
\* the threshold and a StockLevelOk when it started at or below it.
C35_DerivedEventsAlternate ==
  \A m \in ProgramMachines :
    LET derived == DerivedOf(m)
    IN /\ \A p \in derived :
            trace[p].type \in {LowStockWarning, StockLevelOk}
       /\ \A p \in derived : \A q \in derived :
            (p < q /\ \A r \in derived : ~(p < r /\ r < q))
              => trace[p].type # trace[q].type
       /\ derived # {} =>
            trace[MinOf(derived)].type =
              (IF trace[MinOf(StockCallsOf(m))].old > LowStockThreshold
                 THEN LowStockWarning
                 ELSE StockLevelOk)

\* Machine "001" started above the threshold and published three events:
\* LowStockWarning, then StockLevelOk by a refillStock call that the handler
\* of that warning made during its delivery, then LowStockWarning again.
C35_Witness ==
  /\ Cardinality(DerivedOf("001")) = 3
  /\ trace[MinOf(StockCallsOf("001"))].old > LowStockThreshold
  /\ \E p \in DerivedOf("001") : \E q \in DerivedOf("001") :
       /\ p < q
       /\ trace[p].type = LowStockWarning
       /\ trace[q].type = StockLevelOk
       /\ trace[q - 1].op = "refillStock"
       /\ trace[q - 1].depth >= 2
       /\ trace[q].parent = trace[p].pub
       /\ q < MaxOf(DerivedOf("001"))

\* ---- the stock level a derived event finds (specification ProgramSpec)
\* the step is a publish call by a machine
MachinePublishes ==
  \E i \in (Len(trace) + 1)..Len(trace') :
    trace'[i].op = "publish" /\ trace'[i].src = "machine"
\* the stock of machine m is on the side of the threshold that an event of
\* eventType announces
LevelMatches(level, eventType) ==
  CASE eventType = LowStockWarning -> level <= LowStockThreshold
    [] eventType = StockLevelOk -> level > LowStockThreshold
    [] OTHER -> TRUE

\* C36: with the four subscribers of the program, the step in which a
\* machine publishes a derived event has stored the new stock level, the
\* event names that machine, and whenever handle is invoked for a
\* LowStockWarning of machine m the stock of m is at or below the threshold,
\* and for a StockLevelOk of m above it.
C36_StateMatchesDerivedEvent ==
  /\ [][ (CanonicalOnly /\ MachinePublishes) =>
           LET adjusted == Top.event
               derived == stack'[Len(stack')].event
           IN /\ derived.type \in {LowStockWarning, StockLevelOk}
              /\ derived.machineId = adjusted.machineId
              /\ stockLevel'[derived.machineId] # stockLevel[derived.machineId]
              /\ stockLevel'[derived.machineId] =
                   stockLevel[derived.machineId]
                     + (IF adjusted.type = Sale THEN 0 - adjusted.qty
                                                ELSE adjusted.qty)
              /\ LevelMatches(stockLevel'[derived.machineId], derived.type) ]_vars
  /\ [][ (CanonicalOnly /\ IsHandleStep
            /\ Top.event.type \in {LowStockWarning, StockLevelOk}) =>
           /\ Top.event.machineId \in DOMAIN stockLevel
           /\ LevelMatches(stockLevel[Top.event.machineId], Top.event.type)
           /\ LevelMatches(stockLevel'[Top.event.machineId], Top.event.type)
       ]_vars

\* With the four subscribers: warn1 handled the LowStockWarning of a Sale
\* event, and ok1 has just been invoked for the StockLevelOk of the Refill
\* event that followed, while machine "001" holds 5 units.
C36_Witness ==
  /\ CanonicalOnly
  /\ stack # <<>>
  /\ stack[Len(stack)].kind = "handle"
  /\ stack[Len(stack)].event.type = StockLevelOk
  /\ stack[Len(stack)].event.machineId = "001"
  /\ HandleCount("ok1", stack[Len(stack)].event.pub) = 1
  /\ stockLevel["001"] = 5
  /\ \E w \in PubIds : TypeOf(w) = LowStockWarning /\ HandleCount("warn1", w) = 1

\* ---- unsubscribe, then subscribe (specification Spec)
\* entry u is a call unsubscribe(T, O) and the next entry the call
\* subscribe(T, O) that follows it
Reenrolls(u) ==
  /\ u \in Indices("unsubscribe")
  /\ (u + 1) \in Indices("subscribe")
  /\ trace[u + 1].type = trace[u].type
  /\ trace[u + 1].obs = trace[u].obs
\* the step is the subscribe call of such a pair
IsReenrollStep ==
  /\ trace # <<>>
  /\ trace[Len(trace)].op = "unsubscribe"
  /\ IsSubscribeStep(trace[Len(trace)].type, trace[Len(trace)].obs)

DeliverySubscribers == {"custom1", "sale1", "sale2"}
DeliveryRegistrations ==
  { << <<Sale, "custom1">>, <<Sale, "sale1">>, <<Sale, "sale2">> >>,
    << <<Sale, "custom1">>, <<Sale, "sale2">>, <<Sale, "sale1">> >>,
    << <<Sale, "sale1">>, <<Sale, "custom1">>, <<Sale, "sale2">> >> }

DeliveryInit ==
  /\ \E calls \in DeliveryRegistrations :
       /\ subscriptions = Registered(calls).subscriptions
       /\ subscriptionTimestamps = Registered(calls).subscriptionTimestamps
  /\ eventQueue = <<>>
  /\ stockLevel \in [Machines -> InitStockLevels]
  /\ now = 0
  /\ stack = <<>>
  /\ suspended = 0
  /\ raised = FALSE
  /\ trace = <<>>

DeliveryNext ==
  \/ \E event \in EventInputs : Publish(event)
  \/ \E s \in UnsubscriptionInputs : Unsubscribe(s[1], s[2])
  \/ HandleNext
  \/ HandleReturn
  \/ HandlerReturn
  \/ ResumeProcessEvents

DeliverySpec == DeliveryInit /\ [][DeliveryNext]_vars

\* ---- properties (specification DeliverySpec)
\* entry u is an unsubscribe call that a handler made during the delivery of
\* an event of the type it names, of a subscriber that was still enrolled
\* and had not been invoked for that event
UnsubscribesPending(u) ==
  /\ trace[u].src = "handler"
  /\ trace[u].pub # 0
  /\ TypeOf(trace[u].pub) = trace[u].type
  /\ trace[u].obs \in DeliverySubscribers
  /\ \A v \in Indices("unsubscribe") : v < u => trace[v].obs # trace[u].obs
  /\ \A h \in Invocations(trace[u].obs, trace[u].pub) : h > u

\* C38: when a handler unsubscribes O from type T during the delivery of an
\* event E of type T, before O was invoked for E, then O is not invoked for
\* E, and every other subscriber enrolled for T, invoked already or not, is
\* invoked for E exactly once.
C38_UnsubscribeDuringDelivery ==
  \A u \in Indices("unsubscribe") :
    (UnsubscribesPending(u) /\ Ended(trace[u].pub))
      => /\ HandleCount(trace[u].obs, trace[u].pub) = 0
         /\ \A o \in DeliverySubscribers \ {trace[u].obs} :
              HandleCount(o, trace[u].pub) = 1

====
